---- MODULE Spec2Model ----
(***************************************************************************)
(* Stock and price synchronisation of a supplier feed into two marketplace *)
(* seller accounts: seller.py (Ozon) and market.py (Yandex.Market).        *)
(*                                                                         *)
(* Python strings whose characters matter (the quantity and the price of a *)
(* feed record) are sequences of one-character strings, so that            *)
(* price_conversion and int() are computed character by character.         *)
(***************************************************************************)
EXTENDS Integers, Sequences, FiniteSets, TLC

(***************************************************************************)
(* Bounds of the model                                                     *)
(***************************************************************************)
\* longest feed (watch_remnants) of the function-level specification
MaxFeed == 2
\* most listing ids handed to create_stocks / create_prices (SpecFn)
MaxListings == 3
\* largest chunk size n handed to divide (SpecFn)
MaxChunk == 3
\* longest feed of the flow specification
MaxFlowFeed == 1
\* most listings of a marketplace catalog (flow specification)
MaxCatalog == 2
\* page requests one get_offer_ids call may issue before the model stops
\* following it (the code has no such cap)
MaxRequests == 3
\* readings of the clock: utcnow() yields 0 .. MaxClock
MaxClock == 1
\* times the entry point is run
MaxRuns == 2
\* listings per catalog page the servers return (limit 1000 / 200 in the
\* source, scaled)
PageSize == 1
\* chunk sizes, scaled: 100 (seller.py:334,349), 900 (seller.py:353),
\* 1000 (seller.py:308), 2000 (market.py:251,270,277), 500 (market.py:228)
OzonStockChunk == 1
OzonMainPriceChunk == 2
OzonPriceChunk == 2
MarketStockChunk == 2
MarketPriceChunk == 1

(***************************************************************************)
(* Strings                                                                 *)
(***************************************************************************)
Digits == {"0", "1", "2", "3", "4", "5", "6", "7", "8", "9"}

DigitVal(c) ==
    CASE c = "0" -> 0 [] c = "1" -> 1 [] c = "2" -> 2 [] c = "3" -> 3
      [] c = "4" -> 4 [] c = "5" -> 5 [] c = "6" -> 6 [] c = "7" -> 7
      [] c = "8" -> 8 [] c = "9" -> 9

\* value of a non-empty sequence of decimal digits
RECURSIVE DecValue(_)
DecValue(ds) ==
    IF ds = <<>> THEN 0
    ELSE 10 * DecValue(SubSeq(ds, 1, Len(ds) - 1)) + DigitVal(ds[Len(ds)])

\* str.strip(): leading and trailing whitespace removed
RECURSIVE strip(_)
strip(s) ==
    IF s = <<>> THEN s
    ELSE IF s[1] = " " THEN strip(Tail(s))
    ELSE IF s[Len(s)] = " " THEN strip(SubSeq(s, 1, Len(s) - 1))
    ELSE s

\* int(str): surrounding whitespace, an optional sign, then one or more
\* digits; anything else raises ValueError
int(s) ==
    LET t == strip(s)
        signed == t # <<>> /\ t[1] \in {"+", "-"}
        ds == IF signed THEN Tail(t) ELSE t
    IN  IF ds # <<>> /\ \A i \in 1..Len(ds) : ds[i] \in Digits
        THEN [ok |-> TRUE,
              val |-> IF signed /\ t[1] = "-" THEN 0 - DecValue(ds) ELSE DecValue(ds)]
        ELSE [ok |-> FALSE, val |-> 0]

\* price.split(".")[0]: the part before the first ".", all of it without one
RECURSIVE split0(_)
split0(s) ==
    IF s = <<>> \/ s[1] = "." THEN <<>>
    ELSE <<s[1]>> \o split0(Tail(s))

IsDigit(c) == c \in Digits

\* re.sub("[^0-9]", "", s)
sub_non_digits(s) == SelectSeq(s, IsDigit)

price_conversion(price) == sub_non_digits(split0(price))

(***************************************************************************)
(* Data                                                                    *)
(***************************************************************************)
Modules == {"seller", "market"}

\* listing ids of the marketplace
OfferIds == {"A", "B", "C"}

Q_GT10 == <<">", "1", "0">>
Q_1 == <<"1">>
Q_7 == <<"7">>
Q_2 == <<"2">>
Q_ABC == <<"a", "b", "c">>

\* "5'990.00 rub."
P_5990 == <<"5", "'", "9", "9", "0", ".", "0", "0", " ", "r", ".">>
\* "12.50"
P_12 == <<"1", "2", ".", "5", "0">>
\* ".50 x": no digit before the first "."
P_NODIGIT == <<".", "5", "0", " ", "x">>

\* the feed records the feeds are drawn from: every quantity rule, a code
\* that is no listing ("X"), a repeated code ("A" twice), a price without
\* digits
Records ==
    { [code |-> "A", quantity |-> Q_GT10, price |-> P_5990],
      [code |-> "B", quantity |-> Q_1,    price |-> P_12],
      [code |-> "A", quantity |-> Q_7,    price |-> P_12],
      [code |-> "X", quantity |-> Q_2,    price |-> P_12],
      [code |-> "C", quantity |-> Q_2,    price |-> P_NODIGIT],
      [code |-> "B", quantity |-> Q_ABC,  price |-> P_5990] }

SeqsUpTo(S, n) == UNION { [1..k -> S] : k \in 0..n }

NoDup(s) == \A i, j \in 1..Len(s) : s[i] = s[j] => i = j

Range(s) == { s[i] : i \in 1..Len(s) }

\* list.remove(x): the first occurrence of x leaves the list
RECURSIVE remove(_, _)
remove(lst, x) ==
    IF lst = <<>> THEN lst
    ELSE IF lst[1] = x THEN Tail(lst)
    ELSE <<lst[1]>> \o remove(Tail(lst), x)

WarehouseId == "wh"

(***************************************************************************)
(* create_stocks                                                           *)
(***************************************************************************)
\* a classifier that turns what int() rejects into 0
stock_of_lenient(count) ==
    IF count = Q_GT10 THEN [ok |-> TRUE, val |-> 100]
    ELSE IF count = Q_1 THEN [ok |-> TRUE, val |-> 0]
    ELSE IF int(count).ok THEN int(count)
    ELSE [ok |-> TRUE, val |-> 0]

\* the stock level of a matched record: quantity string -> [ok, val]
stock_of(count) ==
    IF count = Q_GT10 THEN [ok |-> TRUE, val |-> 100]
    ELSE IF count = Q_1 THEN [ok |-> TRUE, val |-> 0]
    ELSE int(count)

seller_stock(offer_id, stock) == [offer_id |-> offer_id, stock |-> stock]

market_stock(sku, warehouse_id, count, date) ==
    [sku |-> sku, warehouseId |-> warehouse_id, count |-> count,
     type |-> "FIT", updatedAt |-> date]

stock_entry(m, id, stock, date) ==
    IF m = "seller" THEN seller_stock(id, stock)
    ELSE market_stock(id, WarehouseId, stock, date)

\* str(watch.get("Код")) in offer_ids, as create_stocks tests it
stock_listed(code, offer_ids) == code \in Range(offer_ids)

\* a create_stocks that forgets to take the matched id out of the list
consume_nothing(offer_ids, code) == offer_ids

\* offer_ids.remove(str(watch.get("Код")))
consume(offer_ids, code) == remove(offer_ids, code)

\* the loop over watch_remnants from record i on; acc is
\* [stocks, offer_ids, raised]
RECURSIVE stocks_loop(_, _, _, _, _)
stocks_loop(m, watch_remnants, i, acc, date) ==
    IF i > Len(watch_remnants) \/ acc.raised THEN acc
    ELSE
      LET watch == watch_remnants[i] IN
      IF stock_listed(watch.code, acc.offer_ids)
      THEN LET s == stock_of(watch.quantity) IN
           IF s.ok
           THEN stocks_loop(m, watch_remnants, i + 1,
                  [stocks |-> Append(acc.stocks,
                                     stock_entry(m, watch.code, s.val, date)),
                   offer_ids |-> consume(acc.offer_ids, watch.code),
                   raised |-> FALSE], date)
           ELSE [acc EXCEPT !.raised = TRUE]
      ELSE stocks_loop(m, watch_remnants, i + 1, acc, date)

\* a zero fill that walks the remaining listings from the last to the first
zero_fill_reversed(m, offer_ids, date) ==
    [i \in 1..Len(offer_ids) |->
        stock_entry(m, offer_ids[Len(offer_ids) + 1 - i], 0, date)]

\* the entries of the listings left in offer_ids
zero_fill(m, offer_ids, date) ==
    [i \in 1..Len(offer_ids) |-> stock_entry(m, offer_ids[i], 0, date)]

\* create_stocks of module m: [stocks, offer_ids, raised], offer_ids being
\* the caller's list as the call leaves it
create_stocks(m, watch_remnants, offer_ids, date) ==
    LET acc == stocks_loop(m, watch_remnants, 1,
                 [stocks |-> <<>>, offer_ids |-> offer_ids, raised |-> FALSE],
                 date)
    IN  IF acc.raised THEN [acc EXCEPT !.stocks = <<>>]
        ELSE [acc EXCEPT !.stocks = acc.stocks \o zero_fill(m, acc.offer_ids, date)]

StockId(e) == IF "sku" \in DOMAIN e THEN e.sku ELSE e.offer_id
StockCount(e) == IF "sku" \in DOMAIN e THEN e.count ELSE e.stock

(***************************************************************************)
(* create_prices                                                           *)
(***************************************************************************)
\* the price field of module m: [ok, val]
price_of(m, price) ==
    IF m = "seller" THEN [ok |-> TRUE, val |-> price_conversion(price)]
    ELSE int(price_conversion(price))

price_entry(m, code, val) ==
    IF m = "seller"
    THEN [auto_action_enabled |-> "UNKNOWN", currency_code |-> "RUB",
          offer_id |-> code, old_price |-> <<"0">>, price |-> val]
    ELSE [id |-> code, value |-> val, currencyId |-> "RUR"]

\* a create_prices that prices every feed record, listed or not
price_listed_any(code, offer_ids) == TRUE

\* str(watch.get("Код")) in offer_ids, as create_prices tests it
price_listed(code, offer_ids) == code \in Range(offer_ids)

RECURSIVE prices_loop(_, _, _, _, _)
prices_loop(m, watch_remnants, offer_ids, i, acc) ==
    IF i > Len(watch_remnants) \/ acc.raised THEN acc
    ELSE
      LET watch == watch_remnants[i] IN
      IF price_listed(watch.code, offer_ids)
      THEN LET p == price_of(m, watch.price) IN
           IF p.ok
           THEN prices_loop(m, watch_remnants, offer_ids, i + 1,
                  [prices |-> Append(acc.prices, price_entry(m, watch.code, p.val)),
                   raised |-> FALSE])
           ELSE [prices |-> <<>>, raised |-> TRUE]
      ELSE prices_loop(m, watch_remnants, offer_ids, i + 1, acc)

create_prices(m, watch_remnants, offer_ids) ==
    prices_loop(m, watch_remnants, offer_ids, 1, [prices |-> <<>>, raised |-> FALSE])

PriceId(e) == IF "id" \in DOMAIN e THEN e.id ELSE e.offer_id
PriceVal(e) == IF "id" \in DOMAIN e THEN e.value ELSE e.price

(***************************************************************************)
(* divide                                                                  *)
(***************************************************************************)
\* range(0, len(lst), n) from offset i on: the slices lst[i : i + n]
RECURSIVE divide_from(_, _, _)
divide_from(lst, n, i) ==
    IF i >= Len(lst) THEN <<>>
    ELSE <<SubSeq(lst, i + 1, IF i + n > Len(lst) THEN Len(lst) ELSE i + n)>>
         \o divide_from(lst, n, i + n)

\* a divide that yields the full chunks only
divide_full_only(lst, n) ==
    LET all == divide_from(lst, n, 0)
        full(c) == Len(c) = n
    IN  SelectSeq(all, full)

\* list(divide(lst, n))
divide(lst, n) == divide_from(lst, n, 0)

(***************************************************************************)
(* State                                                                   *)
(***************************************************************************)
VARIABLES
    module,         \* "seller" (seller.py) or "market" (market.py)
    entry,          \* the function run: "main", "upload_stocks", "upload_prices"
    watch_remnants, \* the feed download_stock() returned
    catalog,        \* campaign -> the listings of the marketplace, in order
    server,         \* "ok", or "stuck": the cursor of a page stops advancing
    pc,             \* position in the running function
    campaign,       \* the campaign being synchronised: "ozon", "fbs", "dbs"
    cursor,         \* last_id / page of get_offer_ids; 0 is the empty string
    page_requests,  \* cursors of the page requests of this get_offer_ids call
    product_list,   \* product_list of get_offer_ids
    offer_ids,      \* the caller's offer_ids list
    stocks,         \* the caller's stocks list
    prices,         \* the caller's prices list
    pending,        \* chunks of list(divide(...)) not yet submitted
    n,              \* chunk size of the dispatch under way
    sent,           \* requests the update endpoints answered, in order
    error,          \* "none", or the exception that ended the function
    now,            \* the clock
    run,            \* number of the run of the entry point
    prev_sent,      \* sent of the previous run
    prev_error      \* error of the previous run

vars == <<module, entry, watch_remnants, catalog, server, pc, campaign, cursor,
          page_requests, product_list, offer_ids, stocks, prices, pending, n,
          sent, error, now, run, prev_sent, prev_error>>

\* what a run never changes
inputs == <<module, entry, watch_remnants, catalog, server>>

Listings(k) == { s \in SeqsUpTo(OfferIds, k) : NoDup(s) }

Flatten(chunks) ==
    LET RECURSIVE flat(_)
        flat(cs) == IF cs = <<>> THEN <<>> ELSE Head(cs) \o flat(Tail(cs))
    IN  flat(chunks)

\* the chunks of one kind the endpoints of campaign c answered
SentChunks(log, kind, c) ==
    LET hit(r) == r.kind = kind /\ r.campaign = c
        picked == SelectSeq(log, hit)
    IN  [i \in 1..Len(picked) |-> picked[i].chunk]

\* the exceptions a run can end with: int() of a quantity, int() of a
\* price, a failed HTTP request
QuantityError == "ValueError: int(quantity)"
PriceError == "ValueError: int(price)"
RequestError == "RequestException"

(***************************************************************************)
(* SpecFn: create_stocks, create_prices and divide with a submit call per  *)
(* chunk, on every feed and every list of distinct listing ids.  The       *)
(* paginator is taken to have returned catalog[campaign].                  *)
(***************************************************************************)
FnInit ==
    /\ module \in Modules
    /\ entry = "functions"
    /\ watch_remnants \in SeqsUpTo(Records, MaxFeed)
    /\ campaign = (IF module = "seller" THEN "ozon" ELSE "fbs")
    /\ \E s \in Listings(MaxListings) : /\ catalog = (campaign :> s)
                                        /\ offer_ids = s
    /\ server = "ok"
    /\ pc = "call"
    /\ cursor = 0
    /\ page_requests = <<>>
    /\ product_list = <<>>
    /\ stocks = <<>>
    /\ prices = <<>>
    /\ pending = <<>>
    /\ n = 0
    /\ sent = <<>>
    /\ error = "none"
    /\ now = 0
    /\ run = 1
    /\ prev_sent = <<>>
    /\ prev_error = "none"

\* prices = create_prices(watch_remnants, offer_ids) on the list as fetched
FnCreatePrices ==
    /\ pc = "call"
    /\ LET r == create_prices(module, watch_remnants, offer_ids) IN
         /\ prices' = r.prices
         /\ error' = (IF r.raised THEN PriceError ELSE "none")
         /\ pc' = (IF r.raised THEN "raised" ELSE "priced")
    /\ UNCHANGED <<inputs, campaign, cursor, page_requests, product_list,
                   offer_ids, stocks, pending, n, sent, now, run, prev_sent,
                   prev_error>>

\* stocks = create_stocks(watch_remnants, offer_ids)
FnCreateStocks ==
    /\ pc \in {"call", "priced"}
    /\ \E date \in now..MaxClock :
         LET r == create_stocks(module, watch_remnants, offer_ids, date) IN
           /\ stocks' = r.stocks
           /\ offer_ids' = r.offer_ids
           /\ error' = (IF r.raised THEN QuantityError ELSE "none")
           /\ pc' = (IF r.raised THEN "raised"
                     ELSE IF pc = "priced" THEN "priced_stocked" ELSE "stocked")
           /\ now' = date
    /\ UNCHANGED <<inputs, campaign, cursor, page_requests, product_list,
                   prices, pending, n, sent, run, prev_sent, prev_error>>

\* list(divide(lst, k)) of the stocks or of the prices
FnDivide ==
    /\ pc \in {"priced", "stocked", "priced_stocked"}
    /\ \E k \in 1..MaxChunk, kind \in {"stocks", "prices"} :
         /\ n' = k
         /\ pending' = divide(IF kind = "stocks" THEN stocks ELSE prices, k)
         /\ pc' = (IF kind = "stocks" THEN "update_stocks" ELSE "update_price")
    /\ UNCHANGED <<inputs, campaign, cursor, page_requests, product_list,
                   offer_ids, stocks, prices, sent, error, now, run, prev_sent,
                   prev_error>>

\* a dispatch that notes the failure of a chunk and goes on to the next
request_raised_skipped(after) ==
    /\ error' = RequestError
    /\ pending' = Tail(pending)
    /\ UNCHANGED <<pc, sent>>

\* requests.post / raise_for_status raise inside update_stocks or
\* update_price: the exception leaves the for loop over the chunks
request_raised(after) ==
    /\ error' = RequestError
    /\ pc' = after
    /\ UNCHANGED <<pending, sent>>

\* the endpoint answers the request of the next chunk
Submit(kind) ==
    /\ pending # <<>>
    /\ sent' = Append(sent, [kind |-> kind, campaign |-> campaign,
                             chunk |-> Head(pending)])
    /\ pending' = Tail(pending)

\* update_stocks / update_price on the next chunk
FnSubmit ==
    /\ pc \in {"update_stocks", "update_price"}
    /\ Submit(IF pc = "update_stocks" THEN "stocks" ELSE "prices")
    /\ UNCHANGED <<inputs, pc, campaign, cursor, page_requests, product_list,
                   offer_ids, stocks, prices, n, error, now, run, prev_sent,
                   prev_error>>

\* the request of the next chunk raises (requests.post, raise_for_status)
FnSubmitFail ==
    /\ pc \in {"update_stocks", "update_price"}
    /\ pending # <<>>
    /\ request_raised("raised")
    /\ UNCHANGED <<inputs, campaign, cursor, page_requests, product_list,
                   offer_ids, stocks, prices, n, now, run, prev_sent,
                   prev_error>>

FnNext ==
    \/ FnCreatePrices
    \/ FnCreateStocks
    \/ FnDivide
    \/ FnSubmit
    \/ FnSubmitFail

SpecFn == FnInit /\ [][FnNext]_vars

(***************************************************************************)
(* Claims on SpecFn                                                        *)
(***************************************************************************)
\* create_stocks has returned
StocksBuilt == pc \in {"stocked", "priced_stocked"}

StockIds == [i \in 1..Len(stocks) |-> StockId(stocks[i])]
PriceIds == [i \in 1..Len(prices) |-> PriceId(prices[i])]

\* the listing ids the paginator returned
S == catalog[campaign]

FeedCodes == { watch_remnants[i].code : i \in 1..Len(watch_remnants) }

\* C1: when create_stocks(F, S) returns, the ids of its stock updates are
\* the ids of S, each exactly once, whatever codes F repeats or carries
\* that S lacks.
C1_StockIdsAreListings ==
    StocksBuilt => /\ NoDup(StockIds)
                   /\ Range(StockIds) = Range(S)

\* a feed with a repeated listed code and a code that is no listing, and a
\* listing the feed lacks
C1_Witness ==
    /\ StocksBuilt
    /\ Len(watch_remnants) = 2
    /\ watch_remnants[1].code = watch_remnants[2].code
    /\ watch_remnants[1].code \in Range(S)
    /\ Range(S) \ FeedCodes # {}
    /\ Len(stocks) = 3

\* C2: when both lists are built for (F, S), every priced id is a stocked
\* id, and a listing id of S is priced iff some record of F has it as code.
C2_PricesAreMatchedListings ==
    pc = "priced_stocked" =>
        /\ Range(PriceIds) \subseteq Range(StockIds)
        /\ \A id \in Range(S) : id \in Range(PriceIds) <=> id \in FeedCodes

\* a matched listing, an orphan listing and a feed code that is no listing
C2_Witness ==
    /\ pc = "priced_stocked"
    /\ Range(S) \cap FeedCodes # {}
    /\ Range(S) \ FeedCodes # {}
    /\ FeedCodes \ Range(S) # {}
    /\ prices # <<>>

\* C3: after create_stocks returns or raises, the caller's list of listing
\* ids holds the ids it held before the call.
C3_CallerListUntouched ==
    (StocksBuilt \/ (pc = "raised" /\ error = QuantityError))
        => offer_ids = S

\* C5: a dispatch of N updates with chunk size n submits chunks of 1..n
\* items that, in call order, make up the list; once every chunk is
\* submitted there were ceil(N / n) calls (none for N = 0).
C5_DispatchChunks ==
    pc \in {"update_stocks", "update_price"} =>
        LET lst == IF pc = "update_stocks" THEN stocks ELSE prices
            calls == [i \in 1..Len(sent) |-> sent[i].chunk]
        IN  /\ \A i \in 1..Len(calls) : Len(calls[i]) \in 1..n
            /\ Flatten(calls) \o Flatten(pending) = lst
            /\ pending = <<>> => /\ Len(calls) * n >= Len(lst)
                                 /\ (Len(calls) - 1) * n < Len(lst)

\* three updates in chunks of two: a full chunk, then a smaller last one
C5_Witness ==
    /\ pc \in {"update_stocks", "update_price"}
    /\ pending = <<>>
    /\ n = 2
    /\ Len(sent) = 2
    /\ Len(sent[1].chunk) = 2
    /\ Len(sent[2].chunk) = 1

\* the records create_stocks matches: the first of each listed code
Matched ==
    { i \in 1..Len(watch_remnants) :
        /\ watch_remnants[i].code \in Range(S)
        /\ \A j \in 1..(i - 1) : watch_remnants[j].code # watch_remnants[i].code }

\* the closed rule, spelled out on the quantities of the feeds
RuleQuantity(count) ==
    CASE count = Q_GT10 -> 100
      [] count = Q_1 -> 0
      [] count = Q_7 -> 7
      [] count = Q_2 -> 2
      [] OTHER -> -1

IntegerLiteral(count) == count \in {Q_1, Q_7, Q_2}

\* C6: a matched record's stock is 100 for ">10", 0 for "1", the integer
\* for an integer literal; a matched quantity that is neither ">10" nor an
\* integer literal makes create_stocks raise, and no stock list is built.
C6_QuantityRule ==
    /\ StocksBuilt =>
         \A i \in Matched :
            /\ watch_remnants[i].quantity = Q_GT10
                   \/ IntegerLiteral(watch_remnants[i].quantity)
            /\ \E k \in 1..Len(stocks) :
                  /\ StockId(stocks[k]) = watch_remnants[i].code
                  /\ StockCount(stocks[k]) = RuleQuantity(watch_remnants[i].quantity)
    /\ (pc = "raised" /\ error = QuantityError) =>
         /\ stocks = <<>>
         /\ \E i \in Matched : watch_remnants[i].quantity = Q_ABC

\* ">10" and the literal "2" are classified in one call
C6_Witness ==
    /\ StocksBuilt
    /\ \E i, j \in Matched : /\ watch_remnants[i].quantity = Q_GT10
                             /\ watch_remnants[j].quantity = Q_2

\* no digit before the first "." of the raw price
NoDigitBeforeDot(price) ==
    \A k \in 1..Len(price) :
        price[k] \in Digits => \E j \in 1..(k - 1) : price[j] = "."

\* C7: a listed record whose raw price has no digit before its first "."
\* makes create_prices report an error, for both modules: it returns no
\* price list.
C7_NoDigitPriceRaises ==
    (\E i \in 1..Len(watch_remnants) :
        /\ watch_remnants[i].code \in Range(S)
        /\ NoDigitBeforeDot(watch_remnants[i].price))
      => pc \notin {"priced", "priced_stocked"}

(***************************************************************************)
(* Spec: the entry points main, upload_stocks and upload_prices of both    *)
(* modules, against catalog, stock and price endpoints.                    *)
(***************************************************************************)
Entries == {"main", "upload_stocks", "upload_prices"}

\* the listing ids of the catalogs of the runs
FlowOfferIds == {"A", "B"}

FlowListings == { s \in SeqsUpTo(FlowOfferIds, MaxCatalog) : NoDup(s) }

\* the campaigns an entry point synchronises, in order
Campaigns(m, e) ==
    IF m = "seller" THEN <<"ozon">>
    ELSE IF e = "main" THEN <<"fbs", "dbs">>
    ELSE <<"fbs">>

Min(a, b) == IF a < b THEN a ELSE b

\* the page of the catalog after cursor c
Page(cat, c) == SubSeq(cat, c + 1, Min(c + PageSize, Len(cat)))

\* the cursor a well-behaved catalog endpoint answers with: Ozon's last_id,
\* Market's nextPageToken (empty on the last page)
NextCursor(m, cat, c) ==
    IF m = "seller" THEN Min(c + PageSize, Len(cat))
    ELSE IF c + PageSize < Len(cat) THEN c + PageSize ELSE 0

\* get_product_list(cursor, ...): the "result" of the response.  A stuck
\* server answers a non-empty cursor with the same cursor.
get_product_list(m, srv, cat, c) ==
    [items |-> Page(cat, c),
     total |-> Len(cat),
     next |-> IF srv = "stuck" /\ c # 0 THEN c ELSE NextCursor(m, cat, c)]

\* a product_list that outlives the call (a list shared between calls)
shared_product_list == product_list

\* product_list = [] at the start of get_offer_ids
initial_product_list == <<>>

\* the exit test of the loop of get_offer_ids
last_page(m, r, products) ==
    IF m = "seller" THEN r.total = Len(products) ELSE r.next = 0

\* chunk sizes of the dispatches
StockChunk(m) == IF m = "seller" THEN OzonStockChunk ELSE MarketStockChunk

PriceChunk(m, e) ==
    IF m = "market" THEN MarketPriceChunk
    ELSE IF e = "main" THEN OzonMainPriceChunk ELSE OzonPriceChunk

Init ==
    /\ module \in Modules
    /\ entry \in Entries
    /\ watch_remnants \in SeqsUpTo(Records, MaxFlowFeed)
    /\ catalog \in [Range(Campaigns(module, entry)) -> FlowListings]
    /\ server \in {"ok", "stuck"}
    /\ pc = "get_offer_ids"
    /\ campaign = Campaigns(module, entry)[1]
    /\ cursor = 0
    /\ page_requests = <<>>
    /\ product_list = <<>>
    /\ offer_ids = <<>>
    /\ stocks = <<>>
    /\ prices = <<>>
    /\ pending = <<>>
    /\ n = 0
    /\ sent = <<>>
    /\ error = "none"
    /\ now = 0
    /\ run = 1
    /\ prev_sent = <<>>
    /\ prev_error = "none"

\* where the function goes once get_offer_ids has returned
AfterOfferIds == IF entry = "upload_prices" THEN "create_prices" ELSE "create_stocks"

\* where the function goes once every stock chunk is submitted
AfterStocks ==
    IF entry = "upload_stocks" THEN "done"
    ELSE IF module = "seller" THEN "create_prices"
    ELSE "upload_prices"

\* one turn of the loop of get_offer_ids: a page request, its answer, the
\* exit test, and past the loop the ids of the products
GetProductList ==
    /\ pc = "get_offer_ids"
    /\ Len(page_requests) < MaxRequests
    /\ LET r == get_product_list(module, server, catalog[campaign], cursor)
           products == product_list \o r.items
       IN  /\ page_requests' = Append(page_requests, cursor)
           /\ product_list' = products
           /\ cursor' = r.next
           /\ IF last_page(module, r, products)
              THEN /\ offer_ids' = products
                   /\ pc' = AfterOfferIds
              ELSE UNCHANGED <<offer_ids, pc>>
    /\ UNCHANGED <<inputs, campaign, stocks, prices, pending, n, sent, error,
                   now, run, prev_sent, prev_error>>

\* the page request raises
GetProductListFail ==
    /\ pc = "get_offer_ids"
    /\ Len(page_requests) < MaxRequests
    /\ error' = RequestError
    /\ pc' = "done"
    /\ UNCHANGED <<inputs, campaign, cursor, page_requests, product_list,
                   offer_ids, stocks, prices, pending, n, sent, now, run,
                   prev_sent, prev_error>>

\* stocks = create_stocks(...) and list(divide(stocks, ...))
CreateStocks ==
    /\ pc = "create_stocks"
    /\ \E date \in (IF module = "market" THEN now..MaxClock ELSE {now}) :
         LET r == create_stocks(module, watch_remnants, offer_ids, date)
             chunks == divide(r.stocks, StockChunk(module))
         IN  /\ offer_ids' = r.offer_ids
             /\ now' = date
             /\ IF r.raised
                THEN /\ error' = QuantityError
                     /\ pc' = "done"
                     /\ UNCHANGED <<stocks, pending, n>>
                ELSE /\ stocks' = r.stocks
                     /\ pending' = chunks
                     /\ n' = StockChunk(module)
                     /\ pc' = (IF chunks = <<>> THEN AfterStocks ELSE "update_stocks")
                     /\ UNCHANGED error
    /\ UNCHANGED <<inputs, campaign, cursor, page_requests, product_list,
                   prices, sent, run, prev_sent, prev_error>>

\* update_stocks(some_stock, ...) is answered
UpdateStocks ==
    /\ pc = "update_stocks"
    /\ Submit("stocks")
    /\ pc' = (IF Tail(pending) = <<>> THEN AfterStocks ELSE pc)
    /\ UNCHANGED <<inputs, campaign, cursor, page_requests, product_list,
                   offer_ids, stocks, prices, n, error, now, run, prev_sent,
                   prev_error>>

\* update_stocks(some_stock, ...) raises
UpdateStocksFail ==
    /\ pc = "update_stocks"
    /\ pending # <<>>
    /\ request_raised("done")
    /\ UNCHANGED <<inputs, campaign, cursor, page_requests, product_list,
                   offer_ids, stocks, prices, n, now, run, prev_sent,
                   prev_error>>

\* prices = create_prices(watch_remnants, offer_ids) and
\* list(divide(prices, ...)), on the caller's offer_ids as it is by now
CreatePrices ==
    /\ pc = "create_prices"
    /\ LET r == create_prices(module, watch_remnants, offer_ids)
           chunks == divide(r.prices, PriceChunk(module, entry))
       IN  IF r.raised
           THEN /\ error' = PriceError
                /\ pc' = "done"
                /\ UNCHANGED <<prices, pending, n>>
           ELSE /\ prices' = r.prices
                /\ pending' = chunks
                /\ n' = PriceChunk(module, entry)
                /\ pc' = (IF chunks = <<>> THEN "done" ELSE "update_price")
                /\ UNCHANGED error
    /\ UNCHANGED <<inputs, campaign, cursor, page_requests, product_list,
                   offer_ids, stocks, sent, now, run, prev_sent, prev_error>>

\* update_price(some_price, ...) is answered
UpdatePrice ==
    /\ pc = "update_price"
    /\ Submit("prices")
    /\ pc' = (IF Tail(pending) = <<>> THEN "done" ELSE pc)
    /\ UNCHANGED <<inputs, campaign, cursor, page_requests, product_list,
                   offer_ids, stocks, prices, n, error, now, run, prev_sent,
                   prev_error>>

\* update_price(some_price, ...) raises
UpdatePriceFail ==
    /\ pc = "update_price"
    /\ pending # <<>>
    /\ request_raised("done")
    /\ UNCHANGED <<inputs, campaign, cursor, page_requests, product_list,
                   offer_ids, stocks, prices, n, now, run, prev_sent,
                   prev_error>>

\* market.py main calls the coroutine function upload_prices without
\* awaiting it: no statement of upload_prices runs.  main goes on with the
\* DBS campaign, or ends.
UploadPricesNotAwaited ==
    /\ pc = "upload_prices"
    /\ IF campaign = "fbs"
       THEN /\ campaign' = "dbs"
            /\ pc' = "get_offer_ids"
            /\ cursor' = 0
            /\ page_requests' = <<>>
            /\ product_list' = initial_product_list
       ELSE /\ pc' = "done"
            /\ UNCHANGED <<campaign, cursor, page_requests, product_list>>
    /\ UNCHANGED <<inputs, offer_ids, stocks, prices, pending, n, sent, error,
                   now, run, prev_sent, prev_error>>

\* the entry point is run again, on the same feed and the same catalog
Rerun ==
    /\ pc = "done"
    /\ run < MaxRuns
    /\ run' = run + 1
    /\ prev_sent' = sent
    /\ prev_error' = error
    /\ sent' = <<>>
    /\ error' = "none"
    /\ pc' = "get_offer_ids"
    /\ campaign' = Campaigns(module, entry)[1]
    /\ cursor' = 0
    /\ page_requests' = <<>>
    /\ product_list' = initial_product_list
    /\ offer_ids' = <<>>
    /\ stocks' = <<>>
    /\ prices' = <<>>
    /\ pending' = <<>>
    /\ n' = 0
    /\ UNCHANGED <<inputs, now>>

Next ==
    \/ GetProductList
    \/ GetProductListFail
    \/ CreateStocks
    \/ UpdateStocks
    \/ UpdateStocksFail
    \/ CreatePrices
    \/ UpdatePrice
    \/ UpdatePriceFail
    \/ UploadPricesNotAwaited
    \/ Rerun

Spec == Init /\ [][Next]_vars

(***************************************************************************)
(* Claims on the dispatch (SpecFn)                                         *)
(***************************************************************************)
IsPrefix(a, b) == Len(a) <= Len(b) /\ SubSeq(b, 1, Len(a)) = a

\* C9: when the request of a chunk raises, the chunks before it stay
\* submitted, the exception ends the dispatch and reaches its caller, and
\* from then on no further chunk is submitted.
C9_FailedChunkAborts ==
    [][ /\ (error = "none" /\ error' = RequestError)
            => /\ pc' = "raised"
               /\ sent' = sent
               /\ pending' = pending
        /\ error # "none" => (sent' = sent /\ error' = error)
        /\ IsPrefix(sent, sent') ]_vars

\* chunk 2 of three raised: chunk 1 is submitted, chunks 2 and 3 are not
C9_Witness ==
    /\ pc = "raised"
    /\ error = RequestError
    /\ Len(sent) = 1
    /\ Len(pending) = 2

(***************************************************************************)
(* Claims on Spec                                                          *)
(***************************************************************************)
\* the ids of the price updates the price endpoint of campaign c answered
PricedIds(c) ==
    LET chunks == SentChunks(sent, "prices", c)
    IN  UNION { { PriceId(chunks[k][i]) : i \in 1..Len(chunks[k]) } :
                k \in 1..Len(chunks) }

\* in the requests of campaign c no price chunk comes before a stock chunk
StocksBeforePrices(c) ==
    \A i, j \in 1..Len(sent) :
        (/\ i < j
         /\ sent[i].campaign = c
         /\ sent[j].campaign = c
         /\ sent[i].kind = "prices") => sent[j].kind # "stocks"

\* C4: a run of main that met no error has submitted every stock chunk of
\* a campaign before any of its price chunks, and has submitted a price
\* update for every listing id of the campaign that a feed record matches.
C4_MainSubmitsPrices ==
    (entry = "main" /\ pc = "done" /\ error = "none" /\ server = "ok") =>
        \A c \in Range(Campaigns(module, entry)) :
            /\ StocksBeforePrices(c)
            /\ (Range(catalog[c]) \cap FeedCodes) \subseteq PricedIds(c)

\* C8: get_offer_ids issues no page request with the non-empty cursor of
\* the request before it: a response that leaves the cursor unchanged
\* (Ozon: while the count differs from total) ends the call.
C8_NoRequestOnUnchangedCursor ==
    \A k \in 2..Len(page_requests) :
        page_requests[k] # 0 => page_requests[k] # page_requests[k - 1]

\* a request without the time stamp of its stock entries
NoStamp(r) ==
    [r EXCEPT !.chunk =
        [i \in 1..Len(r.chunk) |->
            IF "updatedAt" \in DOMAIN r.chunk[i]
            THEN [r.chunk[i] EXCEPT !.updatedAt = 0]
            ELSE r.chunk[i]]]

BothRunsComplete ==
    run >= 2 /\ pc = "done" /\ error = "none" /\ prev_error = "none"

\* C10 as stated: two complete runs on the same feed and catalog submit the
\* same chunks, field for field.
C10_SameRequests == BothRunsComplete => sent = prev_sent

\* C10, amended: the k-th request of the second run is the k-th request of
\* the first apart from updatedAt, and two complete runs submit equally
\* many requests.
C10_SameRequestsButStamp ==
    run >= 2 =>
        /\ \A k \in 1..Min(Len(sent), Len(prev_sent)) :
              NoStamp(sent[k]) = NoStamp(prev_sent[k])
        /\ Len(sent) <= Len(prev_sent) \/ prev_error # "none"
        /\ BothRunsComplete => Len(sent) = Len(prev_sent)

\* two complete Market runs whose requests differ in updatedAt alone
C10_Witness ==
    /\ BothRunsComplete
    /\ module = "market"
    /\ sent # <<>>
    /\ sent # prev_sent

(***************************************************************************)
(* Claims on the order of the stock updates (SpecFn)                       *)
(***************************************************************************)
\* the codes of the matched records, in feed order
MatchedCodes ==
    LET first(i) == i \in Matched
        idx == SelectSeq([i \in 1..Len(watch_remnants) |-> i], first)
    IN  [k \in 1..Len(idx) |-> watch_remnants[idx[k]].code]

\* the listing ids no feed record matches, in the order of S
OrphanIds ==
    LET orphan(id) == id \notin FeedCodes
    IN  SelectSeq(S, orphan)

\* C11: the stock updates are the entries of the matched feed records in
\* feed order, then the zero entries of the unmatched listing ids in the
\* order of the list of listing ids; listing ids A, B, C with the feed
\* [A ">10", B "1"] give [(A, 100), (B, 0), (C, 0)].
C11_StockOrder ==
    StocksBuilt =>
        /\ StockIds = MatchedCodes \o OrphanIds
        /\ \A k \in 1..Len(stocks) :
              k > Len(MatchedCodes) => StockCount(stocks[k]) = 0
        /\ (/\ S = <<"A", "B", "C">>
            /\ Len(watch_remnants) = 2
            /\ watch_remnants[1].code = "A"
            /\ watch_remnants[1].quantity = Q_GT10
            /\ watch_remnants[2].code = "B"
            /\ watch_remnants[2].quantity = Q_1)
           => [k \in 1..Len(stocks) |-> <<StockId(stocks[k]), StockCount(stocks[k])>>]
                 = << <<"A", 100>>, <<"B", 0>>, <<"C", 0>> >>

\* a matched record behind two unmatched listings that are not in
\* alphabetical order
C11_Witness ==
    /\ StocksBuilt
    /\ S = <<"C", "A", "B">>
    /\ MatchedCodes = <<"A">>
    /\ StockIds = <<"A", "C", "B">>

====
